---- MODULE Spec2Model ----
(***************************************************************************)
(* Indicator library (calculateSMA, calculateEMA, calculateMACD,           *)
(* calculateRSI, calculateATR) and signal engine (analyzeData) of          *)
(* algoedgecrypto-signals.                                                 *)
(*                                                                         *)
(* Numbers.  A JavaScript number is modelled as a fixed-point number: an   *)
(* integer counting units of 1/Scale.  Additions, subtractions and         *)
(* comparisons are exact; every division rounds down to a whole unit.      *)
(* An element of a (number | null)[] array is a record [k, v]: k says      *)
(* whether it is a number, null, undefined or NaN, and v is the number.    *)
(* A JavaScript array index i is position i + 1 of the sequence.           *)
(***************************************************************************)
EXTENDS Integers, Sequences, FiniteSets, TLC

\* ------------------------------------------------------------------ bounds
Scale == 1000
MaxLen == 5
MaxPeriod == 3
ExtraBars == 1
MaxStep == 2
MaxCalls == 2
MaxTicks == 1
MaxKick == 2

\* ------------------------------------------------------- program constants
RISK_REWARD_NUM == 3
RISK_REWARD_DEN == 2
ATR_MULTIPLIER == 2
MinBars == 200
Ema50Period == 50
Ema200Period == 200
MacdFast == 12
MacdSlow == 26
MacdSignal == 9
RsiPeriod == 14
AtrPeriod == 14
RsiBuyLevel == 55
RsiSellLevel == 45
RsiMax == 100

\* --------------------------------------------------------- JavaScript values
Null == [k |-> "null", v |-> 0]
Undefined == [k |-> "undefined", v |-> 0]
NaN == [k |-> "nan", v |-> 0]
Num(x) == [k |-> "num", v |-> x]

IsNum(a) == a.k = "num"
\* v !== null && v !== undefined
IsDefined(a) == a.k # "null" /\ a.k # "undefined"
\* ToNumber: null is 0, undefined is NaN
ToNumber(a) == IF a.k = "null" THEN Num(0) ELSE IF a.k = "undefined" THEN NaN ELSE a
\* arr[i] of a number[]: undefined outside the array
At(arr, i) == IF i >= 0 /\ i < Len(arr) THEN Num(arr[i + 1]) ELSE Undefined
\* arr[i] of a (number | null)[]
Elem(arr, i) == IF i >= 0 /\ i < Len(arr) THEN arr[i + 1] ELSE Undefined

JsSub(a, b) ==
  LET x == ToNumber(a)
      y == ToNumber(b)
  IN IF IsNum(x) /\ IsNum(y) THEN Num(x.v - y.v) ELSE NaN
JsAdd(a, b) ==
  LET x == ToNumber(a)
      y == ToNumber(b)
  IN IF IsNum(x) /\ IsNum(y) THEN Num(x.v + y.v) ELSE NaN
\* a * n and a / n for an integer n
JsTimes(a, n) == LET x == ToNumber(a) IN IF IsNum(x) THEN Num(x.v * n) ELSE NaN
JsOver(a, n) == LET x == ToNumber(a) IN IF IsNum(x) THEN Num(x.v \div n) ELSE NaN
JsAbs(a) ==
  LET x == ToNumber(a)
  IN IF IsNum(x) THEN Num(IF x.v < 0 THEN 0 - x.v ELSE x.v) ELSE NaN
\* Math.max: NaN as soon as one argument is NaN
JsMax3(a, b, c) ==
  LET x == ToNumber(a)
      y == ToNumber(b)
      z == ToNumber(c)
      m == IF x.v >= y.v THEN x.v ELSE y.v
  IN IF IsNum(x) /\ IsNum(y) /\ IsNum(z) THEN Num(IF m >= z.v THEN m ELSE z.v) ELSE NaN
\* a > b, a < b: false as soon as one side is NaN
JsGt(a, b) ==
  LET x == ToNumber(a)
      y == ToNumber(b)
  IN IsNum(x) /\ IsNum(y) /\ x.v > y.v
JsLt(a, b) == JsGt(b, a)

\* Array(n).fill(null)
NullArray(n) == [i \in 1..n |-> Null]
\* arr[i] = x, which lengthens the array when i is past its end
SetAt(arr, i, x) ==
  IF i < Len(arr) THEN [arr EXCEPT ![i + 1] = x]
  ELSE [j \in 1..(i + 1) |-> IF j <= Len(arr) THEN arr[j] ELSE IF j = i + 1 THEN x ELSE Undefined]

\* a / b of two fixed-point numbers
FDiv(a, b) == (a * Scale) \div b

\* ------------------------------------------------------------ calculateSMA
\* Loops.  A for loop over the indexes lo .. hi - 1 is written as an operator
\* Loop(..., lo, hi, state) that runs the iterations in index order: one
\* iteration when hi = lo + 1, otherwise the first half of the range and then,
\* from the state that leaves, the second half.  The state the first half
\* leaves is compared with the incoming one, which makes TLC compute it before
\* the second half starts; both branches of that comparison pass on the same
\* state.

RECURSIVE SumSlice(_, _, _)
\* data.slice(from, to).reduce((acc, val) => acc + val, 0)
SumSlice(data, from, to) ==
  IF from >= to THEN 0
  ELSE IF to = from + 1 THEN data[from + 1]
  ELSE LET mid == (from + to) \div 2
       IN SumSlice(data, from, mid) + SumSlice(data, mid, to)

calculateSMA(data, period) ==
  [j \in 1..Len(data) |->
     IF j - 1 < period - 1 THEN Null
     ELSE Num(SumSlice(data, (j - 1) - period + 1, j) \div period)]

\* ------------------------------------------------------------ calculateEMA
\* x * multiplier, multiplier = 2 / (period + 1)
TimesMultiplier(x, period) == (x * 2) \div (period + 1)

\* One value of the EMA after the seed: (data[i] - prevEma) * multiplier + prevEma
EmaStep(price, prevEma, period) == TimesMultiplier(price - prevEma, period) + prevEma

\* One iteration of calculateEMA's loop; st is [prevEma, ema]
emaBody(data, initialSmaValues, period, i, st) ==
  IF i < period - 1 THEN [prevEma |-> st.prevEma, ema |-> Append(st.ema, Null)]
  ELSE IF i = period - 1 THEN
    [prevEma |-> initialSmaValues[i + 1], ema |-> Append(st.ema, initialSmaValues[i + 1])]
  ELSE IF st.prevEma # Null THEN
    LET currentEma == Num(EmaStep(data[i + 1], st.prevEma.v, period))
    IN [prevEma |-> currentEma, ema |-> Append(st.ema, currentEma)]
  ELSE [prevEma |-> st.prevEma, ema |-> Append(st.ema, Null)]

RECURSIVE emaLoop(_, _, _, _, _, _)
emaLoop(data, initialSmaValues, period, lo, hi, st) ==
  IF lo >= hi THEN st
  ELSE IF hi = lo + 1 THEN emaBody(data, initialSmaValues, period, lo, st)
  ELSE LET mid == (lo + hi) \div 2
           half == emaLoop(data, initialSmaValues, period, lo, mid, st)
       IN IF half = st THEN emaLoop(data, initialSmaValues, period, mid, hi, st)
          ELSE emaLoop(data, initialSmaValues, period, mid, hi, half)

\* calculateEMA seeded one index late (i < period, i === period)
calculateEMALateSeed(data, period) ==
  IF Len(data) = 0 THEN <<>>
  ELSE <<Null>> \o emaLoop(Tail(data), calculateSMA(Tail(data), period), period, 0,
                           Len(data) - 1, [prevEma |-> Null, ema |-> <<>>]).ema

calculateEMA(data, period) ==
  emaLoop(data, calculateSMA(data, period), period, 0, Len(data),
          [prevEma |-> Null, ema |-> <<>>]).ema

\* ----------------------------------------------------------- calculateMACD
\* macdLine: emaFast[i] - emaSlow[i] where both are not null
MacdLineOf(emaFast, emaSlow, n) ==
  [j \in 1..n |->
     IF emaFast[j] # Null /\ emaSlow[j] # Null THEN Num(emaFast[j].v - emaSlow[j].v) ELSE Null]

\* macdLine.filter(val => val !== null) as number[]
ValidMacdData(macdLine) ==
  LET kept == SelectSeq(macdLine, LAMBDA x : x # Null)
  IN [j \in 1..Len(kept) |-> kept[j].v]

\* The signal line padded at its end instead of its start
SignalLinePaddedAtEnd(n, validMacdData, signalPeriod) ==
  calculateEMA(validMacdData, signalPeriod) \o NullArray(n - Len(validMacdData))

\* Array(n - valid.length).fill(null).concat(signalLinePadded)
SignalLineOf(n, validMacdData, signalPeriod) ==
  NullArray(n - Len(validMacdData)) \o calculateEMA(validMacdData, signalPeriod)

HistogramOf(macdLine, signalLine, n) ==
  [j \in 1..n |->
     IF macdLine[j] # Null /\ signalLine[j] # Null
     THEN Num(macdLine[j].v - signalLine[j].v) ELSE Null]

calculateMACD(data, fastPeriod, slowPeriod, signalPeriod) ==
  LET n == Len(data)
      macdLine == MacdLineOf(calculateEMA(data, fastPeriod), calculateEMA(data, slowPeriod), n)
      signalLine == SignalLineOf(n, ValidMacdData(macdLine), signalPeriod)
  IN [macdLine |-> macdLine, signalLine |-> signalLine,
      histogram |-> HistogramOf(macdLine, signalLine, n)]

\* ------------------------------------------------------------ calculateRSI
\* data.map((price, i) => i > 0 ? price - data[i-1] : 0).slice(1)
Changes(data) == [j \in 1..(Len(data) - 1) |-> data[j + 1] - data[j]]

RECURSIVE InitialGains(_, _, _)
InitialGains(changes, period, i) ==
  IF i >= period THEN 0
  ELSE (IF changes[i + 1] > 0 THEN changes[i + 1] ELSE 0) + InitialGains(changes, period, i + 1)

RECURSIVE InitialLosses(_, _, _)
InitialLosses(changes, period, i) ==
  IF i >= period THEN 0
  ELSE (IF changes[i + 1] > 0 THEN 0 ELSE 0 - changes[i + 1]) + InitialLosses(changes, period, i + 1)

\* let gain = change > 0 ? change : 0
GainOf(change) == IF change > 0 THEN change ELSE 0
\* let loss = change < 0 ? -change : 0
LossOf(change) == IF change < 0 THEN 0 - change ELSE 0

\* The RSI formula with its sign flipped: 100 + (100 / (1 + rs))
RsiValuePlus(avgGain, avgLoss) ==
  LET rs == IF avgLoss > 0 THEN FDiv(avgGain, avgLoss) ELSE 0
  IN RsiMax * Scale + FDiv(RsiMax * Scale, Scale + rs)

\* rs = avgLoss > 0 ? avgGain / avgLoss : 0;  100 - (100 / (1 + rs))
RsiValue(avgGain, avgLoss) ==
  LET rs == IF avgLoss > 0 THEN FDiv(avgGain, avgLoss) ELSE 0
  IN RsiMax * Scale - FDiv(RsiMax * Scale, Scale + rs)

\* The smoothing loop.  st.rsi is the array being filled, st.avgGain and
\* st.avgLoss the running averages; st.avgLossAt records, index by index, the
\* value the local variable avgLoss had when rsi[index] was written (it is not
\* part of what calculateRSI returns).
rsiBody(changes, period, i, st) ==
  LET change == changes[i + 1]
      avgGain == (st.avgGain * (period - 1) + GainOf(change)) \div period
      avgLoss == (st.avgLoss * (period - 1) + LossOf(change)) \div period
  IN [avgGain |-> avgGain, avgLoss |-> avgLoss,
      rsi |-> SetAt(st.rsi, i + 1, Num(RsiValue(avgGain, avgLoss))),
      avgLossAt |-> SetAt(st.avgLossAt, i + 1, Num(avgLoss))]

RECURSIVE rsiLoop(_, _, _, _, _)
rsiLoop(changes, period, lo, hi, st) ==
  IF lo >= hi THEN st
  ELSE IF hi = lo + 1 THEN rsiBody(changes, period, lo, st)
  ELSE LET mid == (lo + hi) \div 2
           half == rsiLoop(changes, period, lo, mid, st)
       IN IF half = st THEN rsiLoop(changes, period, mid, hi, st)
          ELSE rsiLoop(changes, period, mid, hi, half)

rsiRun(data, period) ==
  LET rsi == NullArray(Len(data))
  IN IF Len(data) <= period THEN [rsi |-> rsi, avgLossAt |-> rsi]
     ELSE
       LET changes == Changes(data)
           avgGain == InitialGains(changes, period, 0) \div period
           avgLoss == InitialLosses(changes, period, 0) \div period
       IN rsiLoop(changes, period, period, Len(changes),
                  [avgGain |-> avgGain, avgLoss |-> avgLoss,
                   rsi |-> SetAt(rsi, period, Num(RsiValue(avgGain, avgLoss))),
                   avgLossAt |-> SetAt(rsi, period, Num(avgLoss))])

calculateRSI(data, period) == rsiRun(data, period).rsi

\* ------------------------------------------------------------ calculateATR
\* Math.max(high[i] - low[i], Math.abs(high[i] - close[i-1]), Math.abs(low[i] - close[i-1]))
TrueRange(high, low, close, i) ==
  JsMax3(JsSub(At(high, i), At(low, i)),
         JsAbs(JsSub(At(high, i), At(close, i - 1))),
         JsAbs(JsSub(At(low, i), At(close, i - 1))))

RECURSIVE TrSum(_, _, _, _, _)
\* the first loop: tr_sum over i = 1 .. period
TrSum(high, low, close, period, i) ==
  IF i > period THEN Num(0)
  ELSE JsAdd(TrueRange(high, low, close, i), TrSum(high, low, close, period, i + 1))

\* atr[i] = (atr[i - 1]! * (period - 1) + tr) / period
atrBody(high, low, close, period, i, atr) ==
  LET tr == TrueRange(high, low, close, i)
  IN SetAt(atr, i, JsOver(JsAdd(JsTimes(Elem(atr, i - 1), period - 1), tr), period))

RECURSIVE atrLoop(_, _, _, _, _, _, _)
atrLoop(high, low, close, period, lo, hi, atr) ==
  IF lo >= hi THEN atr
  ELSE IF hi = lo + 1 THEN atrBody(high, low, close, period, lo, atr)
  ELSE LET mid == (lo + hi) \div 2
           half == atrLoop(high, low, close, period, lo, mid, atr)
       IN IF half = atr THEN atrLoop(high, low, close, period, mid, hi, atr)
          ELSE atrLoop(high, low, close, period, mid, hi, half)

calculateATR(high, low, close, period) ==
  LET atr == NullArray(Len(high))
  IN IF Len(high) < period THEN atr
     ELSE atrLoop(high, low, close, period, period + 1, Len(high),
                  SetAt(atr, period, JsOver(TrSum(high, low, close, period, 1), period)))

\* --------------------------------------------------------------- MarketData
\* One hour between bars, in milliseconds
BarInterval == 3600000

\* A bar built from consecutive closes: it opens at the previous close, and its
\* high and low extend the open-close range by wick.
Bar(closes, i, wick, t0) ==
  LET close == closes[i + 1]
      open == IF i = 0 THEN close ELSE closes[i]
  IN [date |-> t0 + i * BarInterval,
      open |-> open,
      high |-> (IF open > close THEN open ELSE close) + wick,
      low |-> (IF open < close THEN open ELSE close) - wick,
      close |-> close]

BarsOf(closes, wick, t0) == [j \in 1..Len(closes) |-> Bar(closes, j - 1, wick, t0)]

\* data.map(d => d.close), data.map(d => d.high), data.map(d => d.low)
ClosePrices(data) == [j \in 1..Len(data) |-> data[j].close]
HighPrices(data) == [j \in 1..Len(data) |-> data[j].high]
LowPrices(data) == [j \in 1..Len(data) |-> data[j].low]

\* ------------------------------------------------------------- analyzeData
\* x || fallback: the fallback when x is undefined, NaN or 0
OrElse(x, fallback) == IF IsNum(x) /\ x.v # 0 THEN x ELSE fallback

\* `${direction}-${timestamp}`
SignalId(direction, timestamp) == <<direction, timestamp>>

BaseSignal(timestamp, currentPrice, indicatorData) ==
  [id |-> SignalId("HOLD", timestamp),
   timestamp |-> timestamp,
   currentPrice |-> currentPrice,
   entryPrice |-> Null,
   stopLoss |-> Null,
   takeProfit |-> Null,
   indicatorData |-> indicatorData]

\* { ...baseSignal, direction: "HOLD", reasoning }
HoldSignal(base, reasoning) ==
  [id |-> base.id, timestamp |-> base.timestamp, direction |-> "HOLD",
   currentPrice |-> base.currentPrice, entryPrice |-> base.entryPrice,
   stopLoss |-> base.stopLoss, takeProfit |-> base.takeProfit,
   reasoning |-> reasoning, indicatorData |-> base.indicatorData]

\* { ...baseSignal, id, direction, entryPrice, stopLoss, takeProfit, reasoning }
TradeSignal(base, direction, entryPrice, stopLoss, takeProfit, reasoning) ==
  [id |-> SignalId(direction, base.timestamp), timestamp |-> base.timestamp,
   direction |-> direction, currentPrice |-> base.currentPrice,
   entryPrice |-> entryPrice, stopLoss |-> stopLoss, takeProfit |-> takeProfit,
   reasoning |-> reasoning, indicatorData |-> base.indicatorData]

NotEnoughData == <<"Not enough data points to generate signals.">>
StillCalculating == <<"Indicators are still calculating.">>
NoConfluence == <<"No high-confluence signal conditions met. Waiting for alignment.">>
BuyReasoning ==
  <<"Uptrend Confirmed: EMA (50) is above EMA (200).",
    "Bullish Price Action: Price is trading above the EMA (50).",
    "Bullish Momentum: MACD is positive and above its signal line.",
    "Strong Momentum: RSI is above 55, indicating strong buying pressure.">>
SellReasoning ==
  <<"Downtrend Confirmed: EMA (50) is below EMA (200).",
    "Bearish Price Action: Price is trading below the EMA (50).",
    "Bearish Momentum: MACD is negative and below its signal line.",
    "Strong Momentum: RSI is below 45, indicating strong selling pressure.">>

\* [currentPrice, currentEma50, ...].every(v => v !== null && v !== undefined)
allDataAvailable(l) ==
  /\ IsDefined(l.currentPrice) /\ IsDefined(l.ema50) /\ IsDefined(l.ema200)
  /\ IsDefined(l.macd) /\ IsDefined(l.signal) /\ IsDefined(l.rsi) /\ IsDefined(l.atr)

\* The BUY conditions with the RSI threshold admitted (>= 55)
BuyConditionsAtThreshold(l) ==
  /\ JsGt(l.ema50, l.ema200)
  /\ JsGt(l.currentPrice, l.ema50)
  /\ JsGt(l.macd, l.signal) /\ JsGt(l.macd, Num(0))
  /\ ~JsLt(l.rsi, Num(RsiBuyLevel * Scale))

\* isUptrend && isPriceActionBullish && isMacdBullish && isRsiBullish
BuyConditions(l) ==
  /\ JsGt(l.ema50, l.ema200)
  /\ JsGt(l.currentPrice, l.ema50)
  /\ JsGt(l.macd, l.signal) /\ JsGt(l.macd, Num(0))
  /\ JsGt(l.rsi, Num(RsiBuyLevel * Scale))

\* isDowntrend && isPriceActionBearish && isMacdBearish && isRsiBearish
SellConditions(l) ==
  /\ JsLt(l.ema50, l.ema200)
  /\ JsLt(l.currentPrice, l.ema50)
  /\ JsLt(l.macd, l.signal) /\ JsLt(l.macd, Num(0))
  /\ JsLt(l.rsi, Num(RsiSellLevel * Scale))

\* x * RISK_REWARD_RATIO, the ratio being 3/2
TimesRiskReward(x) == JsOver(JsTimes(x, RISK_REWARD_NUM), RISK_REWARD_DEN)

\* The BUY levels with the stop on the wrong side of the entry
BuySignalStopAbove(base, l) ==
  LET entryPrice == l.currentPrice
      stopLoss == JsAdd(entryPrice, JsTimes(l.atr, ATR_MULTIPLIER))
      takeProfit == JsAdd(entryPrice, TimesRiskReward(JsSub(entryPrice, stopLoss)))
  IN TradeSignal(base, "BUY", entryPrice, stopLoss, takeProfit, BuyReasoning)

BuySignal(base, l) ==
  LET entryPrice == l.currentPrice
      stopLoss == JsSub(entryPrice, JsTimes(l.atr, ATR_MULTIPLIER))
      takeProfit == JsAdd(entryPrice, TimesRiskReward(JsSub(entryPrice, stopLoss)))
  IN TradeSignal(base, "BUY", entryPrice, stopLoss, takeProfit, BuyReasoning)

SellSignal(base, l) ==
  LET entryPrice == l.currentPrice
      stopLoss == JsAdd(entryPrice, JsTimes(l.atr, ATR_MULTIPLIER))
      takeProfit == JsSub(entryPrice, TimesRiskReward(JsSub(stopLoss, entryPrice)))
  IN TradeSignal(base, "SELL", entryPrice, stopLoss, takeProfit, SellReasoning)

\* The rules after both guards: BUY, else SELL, else HOLD
Confluence(base, l) ==
  IF BuyConditions(l) THEN BuySignal(base, l)
  ELSE IF SellConditions(l) THEN SellSignal(base, l)
  ELSE HoldSignal(base, NoConfluence)

\* The second guard and the rules behind it
GuardedConfluence(base, l) ==
  IF ~allDataAvailable(l) THEN HoldSignal(base, StillCalculating) ELSE Confluence(base, l)

\* timestamp = data[len - 1]?.date.getTime() || Date.now()
TimestampOf(data, now) ==
  LET len == Len(data)
      t == IF len >= 1 THEN Num(data[len].date) ELSE Undefined
  IN OrElse(t, Num(now)).v

IndicatorData(data) ==
  LET closePrices == ClosePrices(data)
      macd == calculateMACD(closePrices, MacdFast, MacdSlow, MacdSignal)
  IN [ema50 |-> calculateEMA(closePrices, Ema50Period),
      ema200 |-> calculateEMA(closePrices, Ema200Period),
      macdLine |-> macd.macdLine,
      signalLine |-> macd.signalLine,
      histogram |-> macd.histogram,
      rsi |-> calculateRSI(closePrices, RsiPeriod),
      atr |-> calculateATR(HighPrices(data), LowPrices(data), closePrices, AtrPeriod)]

\* currentPrice and the values of the indicators at index len - 1
LatestOf(closePrices, ind) ==
  LET len == Len(closePrices)
  IN [currentPrice |-> OrElse(At(closePrices, len - 1), Num(0)),
      ema50 |-> Elem(ind.ema50, len - 1),
      ema200 |-> Elem(ind.ema200, len - 1),
      macd |-> Elem(ind.macdLine, len - 1),
      signal |-> Elem(ind.signalLine, len - 1),
      rsi |-> Elem(ind.rsi, len - 1),
      atr |-> Elem(ind.atr, len - 1)]

\* analyzeData without its two guards
analyzeDataUnguarded(data, now) ==
  LET ind == IndicatorData(data)
      l == LatestOf(ClosePrices(data), ind)
  IN Confluence(BaseSignal(TimestampOf(data, now), l.currentPrice, ind), l)

analyzeData(data, now) ==
  LET ind == IndicatorData(data)
      l == LatestOf(ClosePrices(data), ind)
      base == BaseSignal(TimestampOf(data, now), l.currentPrice, ind)
  IN IF Len(data) < MinBars THEN HoldSignal(base, NotEnoughData)
     ELSE GuardedConfluence(base, l)

\* ------------------------------------------------------------------- state
VARIABLES
  xs,       \* library: the numeric input series
  period,   \* library: the period (the slow period of calculateMACD)
  fast,     \* library: the fast period of calculateMACD
  signal,   \* library: the signal period of calculateMACD
  wick,     \* library: how far high and low lie outside open and close
  out,      \* library: the last value an indicator function returned
  latest,   \* rules: the latest values handed to the confluence rules
  verdict,  \* rules: what the confluence rules returned
  data,     \* engine: the MarketData series
  clock,    \* engine: what Date.now() reads
  calls     \* engine: the Signals analyzeData returned, in call order

vars == <<xs, period, fast, signal, wick, out, latest, verdict, data, clock, calls>>
libVars == <<xs, period, fast, signal, wick, out>>
ruleVars == <<latest, verdict>>
engineVars == <<data, clock, calls>>

NoOutput == [fn |-> "none"]
NoLatest == [currentPrice |-> Null, ema50 |-> Null, ema200 |-> Null, macd |-> Null,
             signal |-> Null, rsi |-> Null, atr |-> Null]
NoVerdict == [direction |-> "none"]

LibIdle == xs = <<>> /\ period = 1 /\ fast = 1 /\ signal = 1 /\ wick = 0 /\ out = NoOutput
RuleIdle == latest = NoLatest /\ verdict = NoVerdict
EngineIdle == data = <<>> /\ clock = 1 /\ calls = <<>>

\* ------------------------------------------------ the library on small inputs
LibValues == {Scale, 2 * Scale, 3 * Scale}
LibSeries == UNION {[1..n -> LibValues] : n \in 0..MaxLen}

LibInit ==
  /\ xs \in LibSeries
  /\ period \in 1..MaxPeriod
  /\ fast \in 1..MaxPeriod
  /\ fast <= period
  /\ signal \in 1..MaxPeriod
  /\ wick \in {0, Scale}
  /\ out = NoOutput
  /\ RuleIdle
  /\ EngineIdle

CallEMA ==
  /\ out = NoOutput
  /\ out' = [fn |-> "EMA", ema |-> calculateEMA(xs, period)]
  /\ UNCHANGED <<xs, period, fast, signal, wick, ruleVars, engineVars>>

CallMACD ==
  /\ out = NoOutput
  /\ out' = [fn |-> "MACD", macd |-> calculateMACD(xs, fast, period, signal)]
  /\ UNCHANGED <<xs, period, fast, signal, wick, ruleVars, engineVars>>

CallRSI ==
  /\ out = NoOutput
  /\ out' = [fn |-> "RSI", rsi |-> calculateRSI(xs, period),
             avgLoss |-> rsiRun(xs, period).avgLossAt]
  /\ UNCHANGED <<xs, period, fast, signal, wick, ruleVars, engineVars>>

CallATR ==
  /\ out = NoOutput
  /\ LET bars == BarsOf(xs, wick, 0)
     IN out' = [fn |-> "ATR",
                atr |-> calculateATR(HighPrices(bars), LowPrices(bars), ClosePrices(bars), period)]
  /\ UNCHANGED <<xs, period, fast, signal, wick, ruleVars, engineVars>>

LibNext == CallEMA \/ CallMACD \/ CallRSI \/ CallATR

SpecLib == LibInit /\ [][LibNext]_vars

\* ------------------------------------------------- claims about the library
InputIndexes == 0..(Len(xs) - 1)

\* C4: in calculateRSI, at every index where the smoothed average loss is exactly
\* 0 (the seed index or a later one), the RSI value emitted is 100.
C4_ZeroLossGivesHundred ==
  out.fn = "RSI" =>
    \A i \in InputIndexes :
      out.avgLoss[i + 1] = Num(0) => out.rsi[i + 1] = Num(RsiMax * Scale)

\* C5: every indicator series returned by calculateEMA, calculateMACD,
\* calculateRSI and calculateATR is exactly as long as the input series.
C5_SameLength ==
  /\ out.fn = "EMA" => Len(out.ema) = Len(xs)
  /\ out.fn = "MACD" => /\ Len(out.macd.macdLine) = Len(xs)
                        /\ Len(out.macd.signalLine) = Len(xs)
                        /\ Len(out.macd.histogram) = Len(xs)
  /\ out.fn = "RSI" => Len(out.rsi) = Len(xs)
  /\ out.fn = "ATR" => Len(out.atr) = Len(xs)

\* C6: within the input range, calculateEMA's output is defined exactly at the
\* indexes i >= period - 1, and calculateRSI's and calculateATR's exactly at the
\* indexes i >= period; the output for a series shorter than the period is
\* undefined at every index it has.
C6_DefinedSuffix ==
  /\ out.fn = "EMA" =>
       /\ Len(out.ema) >= Len(xs)
       /\ \A i \in InputIndexes : IsDefined(out.ema[i + 1]) <=> i >= period - 1
       /\ Len(xs) < period => \A j \in DOMAIN out.ema : ~IsDefined(out.ema[j])
  /\ out.fn = "RSI" =>
       /\ Len(out.rsi) >= Len(xs)
       /\ \A i \in InputIndexes : IsDefined(out.rsi[i + 1]) <=> i >= period
       /\ Len(xs) < period => \A j \in DOMAIN out.rsi : ~IsDefined(out.rsi[j])
  /\ out.fn = "ATR" =>
       /\ Len(out.atr) >= Len(xs)
       /\ \A i \in InputIndexes : IsDefined(out.atr[i + 1]) <=> i >= period
       /\ Len(xs) < period => \A j \in DOMAIN out.atr : ~IsDefined(out.atr[j])

\* C6 witness: each of the three functions has returned a series with an
\* undefined warm-up and a defined rest.
C6_Witness ==
  /\ out.fn \in {"EMA", "RSI", "ATR"}
  /\ period >= 2
  /\ Len(xs) >= period + 2
  /\ out.fn = "EMA" => ~IsDefined(out.ema[1]) /\ IsDefined(out.ema[Len(xs)])
  /\ out.fn = "RSI" => ~IsDefined(out.rsi[period]) /\ IsDefined(out.rsi[Len(xs)])
  /\ out.fn = "ATR" => ~IsDefined(out.atr[period]) /\ IsDefined(out.atr[Len(xs)])

\* The numbers of macdLine from index slowPeriod - 1 on
MacdSuffix(macdLine, slowPeriod) ==
  [j \in 1..(Len(macdLine) - (slowPeriod - 1)) |-> macdLine[j + slowPeriod - 1].v]

\* C7: with fast <= slow, macdLine[i] is defined exactly for i >= slow - 1;
\* signalLine is the signal-period EMA of macdLine's defined suffix moved right by
\* slow - 1 positions, hence defined exactly for i >= slow + signal - 2; and
\* histogram[i] is macdLine[i] - signalLine[i] where both are defined and
\* undefined everywhere else.
C7_MacdAligned ==
  out.fn = "MACD" =>
    LET m == out.macd.macdLine
        s == out.macd.signalLine
        h == out.macd.histogram
    IN /\ Len(m) = Len(xs) /\ Len(s) = Len(xs) /\ Len(h) = Len(xs)
       /\ \A i \in InputIndexes : IsDefined(m[i + 1]) <=> i >= period - 1
       /\ \A i \in InputIndexes :
            s[i + 1] = IF i < period - 1 THEN Null
                       ELSE calculateEMA(MacdSuffix(m, period), signal)[i - (period - 1) + 1]
       /\ \A i \in InputIndexes : IsDefined(s[i + 1]) <=> i >= period + signal - 2
       /\ \A i \in InputIndexes :
            h[i + 1] = IF IsDefined(m[i + 1]) /\ IsDefined(s[i + 1])
                       THEN Num(m[i + 1].v - s[i + 1].v) ELSE Null

\* C7 witness: a MACD whose signal line warms up after the MACD line does, and
\* whose last histogram value is a number.
C7_Witness ==
  /\ out.fn = "MACD"
  /\ fast < period
  /\ signal >= 2
  /\ Len(xs) >= period + signal - 1
  /\ IsDefined(out.macd.macdLine[period])
  /\ ~IsDefined(out.macd.signalLine[period])
  /\ IsNum(out.macd.histogram[Len(xs)])

\* C9: every defined value calculateRSI returns lies in [0, 100].
C9_RsiInRange ==
  out.fn = "RSI" =>
    \A j \in DOMAIN out.rsi :
      IsDefined(out.rsi[j]) =>
        /\ IsNum(out.rsi[j])
        /\ out.rsi[j].v >= 0
        /\ out.rsi[j].v <= RsiMax * Scale

\* C9 witness: an RSI strictly between 0 and 100, after gains and losses.
C9_Witness ==
  /\ out.fn = "RSI"
  /\ \E j \in DOMAIN out.rsi :
       IsNum(out.rsi[j]) /\ out.rsi[j].v > 0 /\ out.rsi[j].v < RsiMax * Scale

\* ------------------------------------------------ the rules on latest values
RuleUnit == Scale
RuleRsiGrid ==
  {Num((RsiSellLevel - 5) * Scale), Num(RsiSellLevel * Scale), Num(50 * Scale),
   Num(RsiBuyLevel * Scale), Num((RsiBuyLevel + 5) * Scale), Null}

RuleBase == BaseSignal(0, Num(0), <<>>)

RuleInit ==
  /\ \E e50 \in {1, 2, 3}, dp \in {-1, 0, 1}, m \in {-1, 0, 1}, sg \in {-2, -1, 0, 1, 2} :
       \E r \in RuleRsiGrid, a \in {Num(0), Num(RuleUnit), Null} :
         latest = [currentPrice |-> Num((e50 + dp) * RuleUnit),
                   ema50 |-> Num(e50 * RuleUnit),
                   ema200 |-> Num(2 * RuleUnit),
                   macd |-> Num(m * RuleUnit),
                   signal |-> Num(sg * RuleUnit),
                   rsi |-> r,
                   atr |-> a]
  /\ verdict = NoVerdict
  /\ LibIdle
  /\ EngineIdle

\* Lines 70-142 of analyzeData on the latest values
Decide ==
  /\ verdict = NoVerdict
  /\ verdict' = GuardedConfluence(RuleBase, latest)
  /\ UNCHANGED <<latest, libVars, engineVars>>

RuleNext == Decide

SpecRule == RuleInit /\ [][RuleNext]_vars

\* ----------------------------------------------------- the engine on series
\* Closes that rise by up on odd indexes and fall by down on even ones, the
\* steps of the last KickBars bars multiplied by kick.
KickBars == 20
BasePrice == 500 * Scale

\* close[i] - close[i - 1]
ZigZagStep(n, up, down, kick, i) ==
  LET step == IF i % 2 = 1 THEN up ELSE 0 - down
  IN IF i >= n - KickBars THEN step * kick ELSE step

RECURSIVE ZigZagRise(_, _, _, _, _, _)
\* The sum of the steps lo .. hi - 1
ZigZagRise(n, up, down, kick, lo, hi) ==
  IF lo >= hi THEN 0
  ELSE IF hi = lo + 1 THEN ZigZagStep(n, up, down, kick, lo)
  ELSE LET mid == (lo + hi) \div 2
       IN ZigZagRise(n, up, down, kick, lo, mid) + ZigZagRise(n, up, down, kick, mid, hi)

ZigZag(n, up, down, kick) ==
  [j \in 1..n |-> BasePrice + ZigZagRise(n, up, down, kick, 1, j)]

EngineLens ==
  {0, 1, AtrPeriod, AtrPeriod + 1, MinBars - 1} \cup (MinBars..(MinBars + ExtraBars))

\* What Date.now() reads at first: later than every bar
Now0 == (MinBars + ExtraBars + 1) * BarInterval

EngineInit ==
  /\ \E n \in EngineLens, up \in 0..MaxStep, down \in 0..MaxStep, kick \in 1..MaxKick :
       data = BarsOf(ZigZag(n, up * Scale, down * Scale, kick), Scale \div 2, 0)
  /\ clock = Now0
  /\ calls = <<>>
  /\ LibIdle
  /\ RuleIdle

\* Time passes between calls
Tick ==
  /\ clock < Now0 + MaxTicks
  /\ clock' = clock + 1
  /\ UNCHANGED <<data, calls, libVars, ruleVars>>

\* One call of analyzeData on the series
Analyze ==
  /\ Len(calls) < MaxCalls
  /\ calls' = Append(calls, analyzeData(data, clock))
  /\ UNCHANGED <<data, clock, libVars, ruleVars>>

Next == Tick \/ Analyze

Spec == EngineInit /\ [][Next]_vars

\* --------------------------------------------------- claims about the rules
\* The four BUY conditions and the four SELL conditions, on the latest values
LatestBullish ==
  /\ latest.ema50.v > latest.ema200.v
  /\ latest.currentPrice.v > latest.ema50.v
  /\ latest.macd.v > latest.signal.v /\ latest.macd.v > 0
  /\ latest.rsi.v > RsiBuyLevel * Scale
LatestBearish ==
  /\ latest.ema50.v < latest.ema200.v
  /\ latest.currentPrice.v < latest.ema50.v
  /\ latest.macd.v < latest.signal.v /\ latest.macd.v < 0
  /\ latest.rsi.v < RsiSellLevel * Scale

\* C2: once both guards are passed, the result is BUY exactly when the four BUY
\* conditions hold, SELL exactly when BUY did not fire and the four mirrored
\* conditions hold, and HOLD in every other case; equality at a threshold fails
\* its condition, and the BUY and SELL conditions never hold together.
C2_ConfluenceRules ==
  (verdict # NoVerdict /\ allDataAvailable(latest)) =>
    /\ verdict.direction \in {"BUY", "SELL", "HOLD"}
    /\ verdict.direction = "BUY" <=> LatestBullish
    /\ verdict.direction = "SELL" <=> (~LatestBullish /\ LatestBearish)
    /\ verdict.direction = "HOLD" <=> (~LatestBullish /\ ~LatestBearish)
    /\ ~(LatestBullish /\ LatestBearish)
    /\ verdict.direction = "HOLD" => verdict.reasoning = NoConfluence

\* C2 witness: three BUY conditions hold and RSI is exactly 55; the result is HOLD.
C2_Witness ==
  /\ verdict # NoVerdict
  /\ allDataAvailable(latest)
  /\ latest.ema50.v > latest.ema200.v
  /\ latest.currentPrice.v > latest.ema50.v
  /\ latest.macd.v > latest.signal.v /\ latest.macd.v > 0
  /\ latest.rsi.v = RsiBuyLevel * Scale
  /\ verdict.direction = "HOLD"

\* -------------------------------------------------- claims about the engine
Returned == {calls[k] : k \in DOMAIN calls}

\* The element at the last index of the input, of an array of a returned Signal
AtLastBar(arr) ==
  IF Len(data) >= 1 /\ Len(arr) >= Len(data) THEN arr[Len(data)] ELSE Undefined

\* The seven latest values of a returned Signal are all defined
SevenDefined(sig) ==
  /\ IsDefined(sig.currentPrice)
  /\ IsDefined(AtLastBar(sig.indicatorData.ema50))
  /\ IsDefined(AtLastBar(sig.indicatorData.ema200))
  /\ IsDefined(AtLastBar(sig.indicatorData.macdLine))
  /\ IsDefined(AtLastBar(sig.indicatorData.signalLine))
  /\ IsDefined(AtLastBar(sig.indicatorData.rsi))
  /\ IsDefined(AtLastBar(sig.indicatorData.atr))

\* C1: analyzeData returns BUY or SELL only for a series of at least 200 bars
\* whose seven latest values are all defined; for a shorter series, or with one
\* of them undefined, it returns HOLD.
C1_NoTradeOnMissingData ==
  \A sig \in Returned :
    /\ sig.direction \in {"BUY", "SELL", "HOLD"}
    /\ sig.direction \in {"BUY", "SELL"} => (Len(data) >= MinBars /\ SevenDefined(sig))
    /\ (Len(data) < MinBars \/ ~SevenDefined(sig)) => sig.direction = "HOLD"

\* C1 witness: HOLD for 199 bars, whose EMA-200 is still undefined.
C1_Witness ==
  /\ Len(data) = MinBars - 1
  /\ \E sig \in Returned :
       /\ sig.direction = "HOLD"
       /\ ~IsDefined(AtLastBar(sig.indicatorData.ema200))
       /\ IsDefined(AtLastBar(sig.indicatorData.ema50))

\* C3: HOLD carries no price level; BUY has entryPrice = currentPrice,
\* stopLoss = entryPrice - 2 ATR and takeProfit = entryPrice + 1.5 (entryPrice -
\* stopLoss) = entryPrice + 3 ATR; SELL has the mirrored levels; hence
\* stopLoss <= entryPrice <= takeProfit for BUY and the reverse for SELL.
C3_PriceLevels ==
  \A sig \in Returned :
    LET atr == AtLastBar(sig.indicatorData.atr)
        e == sig.entryPrice
        sl == sig.stopLoss
        tp == sig.takeProfit
    IN /\ sig.direction = "HOLD" => (e = Null /\ sl = Null /\ tp = Null)
       /\ sig.direction = "BUY" =>
            /\ IsNum(atr) /\ IsNum(e) /\ IsNum(sl) /\ IsNum(tp)
            /\ e = sig.currentPrice /\ e.v = data[Len(data)].close
            /\ sl.v = e.v - 2 * atr.v
            /\ 2 * (tp.v - e.v) = 3 * (e.v - sl.v)
            /\ tp.v = e.v + 3 * atr.v
            /\ sl.v <= e.v /\ e.v <= tp.v
       /\ sig.direction = "SELL" =>
            /\ IsNum(atr) /\ IsNum(e) /\ IsNum(sl) /\ IsNum(tp)
            /\ e = sig.currentPrice /\ e.v = data[Len(data)].close
            /\ sl.v = e.v + 2 * atr.v
            /\ 2 * (e.v - tp.v) = 3 * (sl.v - e.v)
            /\ tp.v = e.v - 3 * atr.v
            /\ tp.v <= e.v /\ e.v <= sl.v

\* C3 witness: a BUY with a positive ATR.
C3_Witness ==
  \E sig \in Returned :
    /\ sig.direction = "BUY"
    /\ AtLastBar(sig.indicatorData.atr).v > 0

\* C8: for a non-empty series, every two calls return the same Signal in every
\* field whatever the clock reads, the timestamp is the last bar's time and the
\* id is direction-timestamp.
C8_SameSeriesSameSignal ==
  Len(data) >= 1 =>
    /\ \A a \in Returned, b \in Returned : a = b
    /\ \A sig \in Returned :
         /\ sig.timestamp = data[Len(data)].date
         /\ sig.id = <<sig.direction, sig.timestamp>>

\* C10: for 200 bars or more the six latest indicator values are defined and a
\* HOLD carries the no-confluence reasoning; for fewer than 200 bars the HOLD
\* carries the not-enough-data reasoning; "still calculating" is never returned.
C10_StillCalculatingUnreachable ==
  \A sig \in Returned :
    /\ sig.reasoning # StillCalculating
    /\ Len(data) >= MinBars =>
         /\ SevenDefined(sig)
         /\ sig.direction = "HOLD" => sig.reasoning = NoConfluence
    /\ Len(data) < MinBars =>
         /\ sig.direction = "HOLD"
         /\ sig.reasoning = NotEnoughData

\* C10 witness: a HOLD for exactly 200 bars, with the no-confluence reasoning.
C10_Witness ==
  /\ Len(data) = MinBars
  /\ \E sig \in Returned : sig.direction = "HOLD" /\ sig.reasoning = NoConfluence

\* The rules of C2 read off the returned Signals of the engine specification:
\* for 200 bars or more, BUY exactly when the four BUY conditions hold at the
\* last index of the returned indicator arrays, SELL exactly when they do not
\* and the four mirrored conditions hold.
ConfluenceOnSeries ==
  \A sig \in Returned :
    Len(data) >= MinBars =>
      LET price == sig.currentPrice.v
          e50 == AtLastBar(sig.indicatorData.ema50).v
          e200 == AtLastBar(sig.indicatorData.ema200).v
          m == AtLastBar(sig.indicatorData.macdLine).v
          sg == AtLastBar(sig.indicatorData.signalLine).v
          r == AtLastBar(sig.indicatorData.rsi).v
          bullish == e50 > e200 /\ price > e50 /\ m > sg /\ m > 0 /\ r > RsiBuyLevel * Scale
          bearish == e50 < e200 /\ price < e50 /\ m < sg /\ m < 0 /\ r < RsiSellLevel * Scale
      IN /\ sig.direction = "BUY" <=> bullish
         /\ sig.direction = "SELL" <=> (~bullish /\ bearish)
         /\ sig.direction = "HOLD" <=> (~bullish /\ ~bearish)

\* The outcomes the series of the engine specification reach
ReachesBuy == \E sig \in Returned : sig.direction = "BUY"
ReachesSell == \E sig \in Returned : sig.direction = "SELL"

====
